---- MODULE Spec2Model ----
(***************************************************************************)
(* Recorder Process Supervisor of server.js: the /api/codegen/* handlers,  *)
(* the registry activeCodegenSessions, the spawned codegen subprocesses    *)
(* and the artifact files they write.                                      *)
(*                                                                         *)
(* Every Express handler of this part is synchronous (start is declared    *)
(* async but awaits nothing), so each handler is one atomic action.  The   *)
(* subprocess, the clock and the file system are the environment: the      *)
(* subprocess writes its --output file while it runs, exits when it        *)
(* likes, and Node then delivers its events to the listeners attached in   *)
(* start.  File-system calls on an existing file are taken to succeed.     *)
(*                                                                         *)
(* Step Runner of server.js: the /api/test/run handler (specification      *)
(* RunSpec).  The handler is async: it yields at every await, so it is     *)
(* one action per await; the browser is the environment, which resolves    *)
(* or rejects each awaited call.                                           *)
(*                                                                         *)
(* AI gateway of server.js: callLLM and the /api/ai/generate handler that  *)
(* calls it (specifications LLMSpec, under every configuration, and        *)
(* GenerateSpec, under every response body).  One action per await: the    *)
(* upstream is the environment, which answers a request, fails it or lets  *)
(* it time out.  The text of the request callLLM builds is no part of the  *)
(* state; the values the upstream answers with are kept as the way they    *)
(* are built, and the string methods of the code are computed on that.     *)
(*                                                                         *)
(* Generated-test runner of server.js: the /api/test/run-codegen handler   *)
(* (specification SuiteSpec).  The handler is one action up to spawn; the  *)
(* Playwright subprocess is the environment, which loads the spec files    *)
(* of generated-tests and closes with an exit code; the close listener is  *)
(* one action.                                                             *)
(*                                                                         *)
(* Story links of db.js: ADOStoryTests.linkTestCases as the link-tests     *)
(* handler calls it (specification LinkSpec).  The database runs one       *)
(* statement at a time, in the order the calls handed them over; a call    *)
(* hands its inserts over when the callback of its DELETE has run.         *)
(***************************************************************************)
EXTENDS Integers, Sequences, FiniteSets, TLC

\* ------------------------------------------------------------------ bounds
\* Number of subprocesses spawned in one behaviour.
MaxProcs == 2
\* Date.now() ranges over 1..MaxClock.
MaxClock == 2
\* The artifact content is one of 1..MaxCode; 0 stands for the empty string.
MaxCode == 2
\* A run request holds at most MaxSteps steps.
MaxSteps == 3

Procs == 1..MaxProcs
\* Session ids are Date.now().toString(): the clock values.
Ids == 1..MaxClock
Codes == 1..MaxCode
\* generatedCode = "" (server.js:137, 189, 232, 301)
EmptyCode == 0
\* req.body.testName; NoName is an absent (falsy) testName.
NoName == "none"
TestNames == {"t1", "t2", NoName}
\* The bodies of the start requests: {url, testName}.
StartRequests == {[url |-> "u1", testName |-> "t1"], [url |-> "u2", testName |-> NoName]}
\* No file at a path.
NoFile == -1
\* No process handle.
NoProc == 0

VARIABLES
    now,                    \* Date.now()
    activeCodegenSessions,  \* the Map: session id -> its sessionData (by process)
    sessionData,            \* the sessionData object created by each successful start
    process,                \* the ChildProcess of each successful start
    files,                  \* the file system: outputFile path (by session id) -> content
    nextProc,               \* the next ChildProcess to be created
    saved,                  \* history: the ids on which a save has succeeded
    last,                   \* the step just taken, with the HTTP response of a handler
    unhandled,              \* an 'error' event found no listener: Node threw it, the server is gone
    body,                   \* /api/test/run: req.body of the request being served
    pc,                     \* /api/test/run: the await the handler stands at
    browser,                \* /api/test/run: the browser chromium.launch returned
    i,                      \* /api/test/run: the loop index
    stepResults,            \* /api/test/run: the array of step results
    testFailed,             \* /api/test/run: a step has failed
    failureReason,          \* /api/test/run: the text for the failed step, or null
    dispatched,             \* history: the calls made on the browser and its page
    rejected,               \* history: the calls that rejected, with their message
    res,                    \* /api/test/run: the response sent
    env,                    \* callLLM: ENV.AI_ENDPOINT and ENV.AI_RETRIES as the call read them
    llmPc,                  \* callLLM: where the call stands
    isOpenAIChat,           \* callLLM: the endpoint looks like an OpenAI chat endpoint
    maxRetries,             \* callLLM: parseInt(ENV.AI_RETRIES, 10) || 2
    attempt,                \* callLLM: the loop variable
    requests,               \* history: the number of https requests sent
    waits,                  \* history: the backoff waits made, in ms
    failures,               \* history: the attempts that rejected, with their message
    upstream,               \* history: the response body the successful attempt received
    upstreamStatus,         \* history: the status code of that response
    llmResp,                \* what callLLM returned or threw
    extracted,              \* history: the call of extractCode, its argument and its outcome
    aiRes,                  \* /api/ai/generate: the response sent
    testsDir,               \* the directory generated-tests: spec file path -> the code in it
    runs,                   \* /api/test/run-codegen: the requests, their spec file and test run
    ado_story_tests,        \* the table ado_story_tests: its (ado_story_id, test_case_id) rows
    linkCalls,              \* linkTestCases: the calls, their arguments and where they stand
    dbError                 \* an 'error' event of a statement found no listener: the server is gone

\* The variables of the recorder endpoints (/api/codegen/*).
codegenVars == <<now, activeCodegenSessions, sessionData, process, files, nextProc, saved, last,
                 unhandled>>

\* The variables of the step runner (/api/test/run).
runVars == <<body, pc, browser, i, stepResults, testFailed, failureReason, dispatched, rejected, res>>

\* The variables of the AI gateway (callLLM, /api/ai/generate).
llmVars == <<env, llmPc, isOpenAIChat, maxRetries, attempt, requests, waits, failures,
             upstream, upstreamStatus, llmResp, extracted, aiRes>>

\* The variables of the generated-test runner (/api/test/run-codegen).
suiteVars == <<testsDir, runs>>

\* The variables of the story links (ADOStoryTests.linkTestCases).
linkVars == <<ado_story_tests, linkCalls, dbError>>

vars == <<now, activeCodegenSessions, sessionData, process, files, nextProc, saved, last,
          unhandled,
          body, pc, browser, i, stepResults, testFailed, failureReason, dispatched, rejected, res,
          env, llmPc, isOpenAIChat, maxRetries, attempt, requests, waits, failures,
          upstream, upstreamStatus, llmResp, extracted, aiRes,
          testsDir, runs, ado_story_tests, linkCalls, dbError>>

\* The program state proper (everything but the clock and the history).
state == <<activeCodegenSessions, sessionData, process, files, nextProc>>

\* ------------------------------------------------------------- data shapes
NoSession == [sessionId |-> 0, testName |-> NoName, url |-> "", generatedCode |-> EmptyCode]

NoProcess == [st |-> "none", killed |-> FALSE]

\* The record of one step: which operation, on which id, and what was answered
\* (res.status(...).json(...)); proc is the session the handler found (for a
\* subprocess step, the subprocess), fileExisted what its
\* fs.existsSync(session.outputFile) returned, reqName the testName of the
\* request body of a save.
Step(op, id, status) ==
    [op |-> op, sessionId |-> id, status |-> status, proc |-> NoProc,
     isRunning |-> FALSE, fileExisted |-> FALSE, generatedCode |-> EmptyCode,
     name |-> NoName, url |-> "", testStatus |-> "", reqName |-> NoName]

\* path.join(__dirname, `.codegen-${sessionId}.ts`): one path per session id.
outputFile(sessionId) == sessionId

existsSync(path) == files[path] # NoFile

readFileSync(path) == files[path]

Registered(id) == id \in DOMAIN activeCodegenSessions

MapDelete(m, id) == [k \in (DOMAIN m) \ {id} |-> m[k]]

MapSet(m, id, v) == [k \in (DOMAIN m) \cup {id} |-> IF k = id THEN v ELSE m[k]]

\* -------------------------------------------------------------------- Init
\* ============================================================= JS values
\* The values the AI gateway handles, as tagged tuples.  A string is kept as
\* the way it is built, so that the string methods of the code can be
\* computed on it:
\*   <<"text", s>>            s itself: code or prose that holds no fence,
\*                            does not start with a brace, is no JSON text
\*                            and has no white space around it ("" included);
\*   <<"fence", lang, x>>     "```" lang "\n" x "\n```";
\*   <<"openfence", lang, x>> "```" lang "\n" x, a fence that is not closed
\*                            ("```" lang alone when x is "");
\*   <<"pad", x>>             "\n" x, white space in front of a non-empty x;
\*   <<"json", v>>            JSON.stringify(v).
Text(s) == <<"text", s>>
Fence(lang, x) == <<"fence", lang, x>>
OpenFence(lang, x) == <<"openfence", lang, x>>
Pad(x) == <<"pad", x>>
Json(v) == <<"json", v>>

JsNull == <<"null">>
JsUndefined == <<"undefined">>
Num(n) == <<"number", n>>
Bool(b) == <<"boolean", b>>
\* An object with the given fields (a function from field names to values).
Obj(fields) == <<"object", fields>>
\* An array with the given elements.
Arr(elements) == <<"array", elements>>

StringTags == {"text", "fence", "openfence", "pad", "json"}

\* typeof v
typeof(v) ==
    CASE v[1] \in StringTags -> "string"
      [] v[1] \in {"null", "object", "array"} -> "object"
      [] OTHER -> v[1]

\* Whether v counts as true in a condition or on the left of ||.
Truthy(v) ==
    CASE v[1] = "text" -> v[2] # ""
      [] v[1] \in {"null", "undefined"} -> FALSE
      [] v[1] = "number" -> v[2] # 0
      [] v[1] = "boolean" -> v[2]
      [] OTHER -> TRUE

\* v.name, for a v that is neither null nor undefined (those throw).
Get(v, name) ==
    IF v[1] = "object" /\ name \in DOMAIN v[2] THEN v[2][name] ELSE JsUndefined

\* v[0]: the first element of an array; undefined for an empty array and for
\* the other values of the model.
First(v) ==
    IF v[1] = "array" /\ v[2] # <<>> THEN v[2][1] ELSE JsUndefined

\* s.trim()
trim(s) == IF s[1] = "pad" THEN s[2] ELSE s

\* s.startsWith("```")
StartsWithFence(s) == s[1] \in {"fence", "openfence"}

\* s.startsWith("{"): of the strings of the model, the JSON text of an object.
StartsWithBrace(s) == s[1] = "json" /\ s[2][1] = "object"

\* Whether /```\s*$/ matches s: s ends with a fence.
RECURSIVE EndsWithFence(_)
EndsWithFence(s) ==
    CASE s[1] = "fence" -> TRUE
      [] s[1] = "openfence" -> IF s[3] = Text("") THEN s[2] = "" ELSE EndsWithFence(s[3])
      [] s[1] = "pad" -> EndsWithFence(s[2])
      [] OTHER -> FALSE

\* s.replace(/```\s*$/, "") for an s that ends with a fence, with the white
\* space the removal leaves at the end trimmed.
RECURSIVE DropClosingFence(_)
DropClosingFence(s) ==
    CASE s[1] = "fence" -> OpenFence(s[2], s[3])
      [] s[1] = "openfence" ->
            IF s[3] = Text("") THEN Text("") ELSE OpenFence(s[2], DropClosingFence(s[3]))
      [] s[1] = "pad" ->
            IF DropClosingFence(s[2]) = Text("") THEN Text("") ELSE Pad(DropClosingFence(s[2]))
      [] OTHER -> s

\* s.replace(/```\s*$/, "").trim()
StripClosingFence(s) == IF EndsWithFence(s) THEN DropClosingFence(s) ELSE s

\* The language tags of the fences of the model: letters only, as
\* [a-zA-Z]* wants them.
Langs == {"", "ts"}

\* s.replace(/^```[a-zA-Z]*\s*/, "").replace(/```\s*$/, "").trim(), for an s
\* whose trim() starts with a fence (server.js:679-682, 705-708).  The first
\* pattern is anchored at the start of s, so it removes nothing from an s
\* that has white space in front.
StripFence(s) ==
    CASE s[1] = "fence" -> trim(s[3])
      [] s[1] = "openfence" -> StripClosingFence(trim(s[3]))
      [] s[1] = "pad" -> StripClosingFence(s[2])
      [] OTHER -> s

\* The outcome of JSON.parse(v): ok and the value, or a SyntaxError.  A value
\* that is no string is turned into a string first.
Parsed(v) == [ok |-> TRUE, value |-> v]
SyntaxError == [ok |-> FALSE, value |-> JsUndefined]

JSONparse(v) ==
    CASE v[1] = "json" -> Parsed(v[2])
      [] v[1] = "pad" /\ v[2][1] = "json" -> Parsed(v[2][2])
      [] v[1] \in {"null", "number", "boolean"} -> Parsed(v)
      [] OTHER -> SyntaxError

\* a || b
Or(a, b) == IF Truthy(a) THEN a ELSE b

\* choice.message?.content || choice.text, server.js:542, for a truthy choice
ChoiceContent(choice) ==
    LET message == Get(choice, "message")
        content == IF message \in {JsNull, JsUndefined}
                   THEN JsUndefined
                   ELSE Get(message, "content")
    IN  Or(content, Get(choice, "text"))

\* What the gateway call resolves with for a response body, server.js:535-557.
\* No statement of the try block throws but JSON.parse(body).
ParseResponse(responseBody, chat) ==
    IF ~JSONparse(responseBody).ok
    THEN Obj([text |-> responseBody])
    ELSE LET parsed == JSONparse(responseBody).value IN
         IF chat /\ Truthy(parsed) /\ Truthy(Get(parsed, "choices"))
         THEN LET choice == First(Get(parsed, "choices"))
                  content == IF Truthy(choice) THEN Or(ChoiceContent(choice), JsNull)
                                               ELSE JsNull
              IN  IF Truthy(content)
                  THEN IF JSONparse(content).ok
                       THEN JSONparse(content).value
                       ELSE Obj([content |-> content, raw |-> parsed])
                  ELSE parsed
         ELSE parsed

\* generatedCode after server.js:657-673
FromResponse(resp) ==
    IF Truthy(resp) /\ typeof(resp) = "object"
    THEN LET choices == Get(resp, "choices") IN
         IF /\ Truthy(choices)
            /\ Truthy(First(choices))
            /\ Truthy(Get(First(choices), "message"))
         THEN Get(Get(First(choices), "message"), "content")
         ELSE Or(Get(resp, "code"),
                 Or(Get(resp, "generatedCode"),
                    Or(Get(resp, "text"), Json(resp))))
    ELSE IF typeof(resp) = "string" THEN resp ELSE JsNull

\* server.js:675-683
WithoutFence(gen) ==
    IF typeof(gen) = "string" /\ StartsWithFence(trim(gen))
    THEN StripFence(gen)
    ELSE gen

\* server.js:685-690; generatedCode.trim() of a truthy value that is no
\* string throws into the empty catch.
CodeProperty(gen) ==
    IF /\ Truthy(gen)
       /\ typeof(gen) = "string"
       /\ StartsWithBrace(trim(gen))
       /\ JSONparse(gen).ok
       /\ Truthy(JSONparse(gen).value)
       /\ Truthy(Get(JSONparse(gen).value, "code"))
    THEN Get(JSONparse(gen).value, "code")
    ELSE gen

\* generatedCode as it is handed to extractCode, server.js:657-690
PreNormalize(resp) == CodeProperty(WithoutFence(FromResponse(resp)))

\* for (let i = 0; i < 10; i++), server.js:695
MaxUnwraps == 10

\* One iteration of the loop of extractCode, server.js:697-722: the new
\* code, whether a rule fired (continue), and whether the iteration threw:
\* typeof null is "object", so code.content is read of null.
Iteration(code) ==
    IF code = JsNull
    THEN [threw |-> TRUE, fired |-> FALSE, code |-> code]
    ELSE IF typeof(code) = "object" /\ Truthy(Get(code, "content"))
    THEN [threw |-> FALSE, fired |-> TRUE, code |-> Get(code, "content")]
    ELSE IF typeof(code) = "string" /\ StartsWithFence(trim(code))
    THEN [threw |-> FALSE, fired |-> TRUE, code |-> StripFence(code)]
    ELSE IF /\ typeof(code) = "string"
            /\ StartsWithBrace(trim(code))
            /\ JSONparse(code).ok
            /\ Truthy(JSONparse(code).value)
            /\ Truthy(Get(JSONparse(code).value, "code"))
    THEN [threw |-> FALSE, fired |-> TRUE, code |-> Get(JSONparse(code).value, "code")]
    ELSE [threw |-> FALSE, fired |-> FALSE, code |-> code]

\* return typeof code === "string" ? code : "", server.js:724
StringOrEmpty(code) == IF typeof(code) = "string" THEN code ELSE Text("")

\* A loop that stops after its first iteration.
Unwrap_once(code, seen) ==
    [ended |-> "break", seen |-> Append(seen, code), code |-> StringOrEmpty(Iteration(code).code)]

\* The loop of extractCode, server.js:695-723, from the iteration that starts
\* with code on, seen being the values the iterations before started with:
\* how it ended ("break", "cap" or "throw"), the values all the iterations
\* started with, and what extractCode returns.
RECURSIVE Unwrap(_, _)
Unwrap(code, seen) ==
    IF Len(seen) >= MaxUnwraps
    THEN [ended |-> "cap", seen |-> seen, code |-> StringOrEmpty(code)]
    ELSE LET it == Iteration(code) IN
         IF it.threw
         THEN [ended |-> "throw", seen |-> Append(seen, code), code |-> JsUndefined]
         ELSE IF it.fired
         THEN Unwrap(it.code, Append(seen, code))
         ELSE [ended |-> "break", seen |-> Append(seen, code), code |-> StringOrEmpty(code)]

\* extractCode(val), server.js:692-725
extractCode(val) == Unwrap(val, <<>>)

\* --------------------------------------------------- AI gateway: data shapes
\* ENV.AI_ENDPOINT: not set, the empty string, a text new URL() rejects, or a
\* URL with its hostname and pathname.
Endpoint(kind, hostname, pathname) == [kind |-> kind, hostname |-> hostname, pathname |-> pathname]

Endpoints ==
    {Endpoint("undefined", "", ""), Endpoint("empty", "", ""), Endpoint("invalid", "", "")}
        \cup {Endpoint("url", h, pa) : h \in {"llm.example", "api.openai.com"},
                                      pa \in {"/generate", "/v1/chat/completions"}}

\* ENV.AI_RETRIES: not set, the decimal text of an integer, or a text that
\* starts with no digit.
Setting(kind, n) == [kind |-> kind, n |-> n]

\* The largest retry count configured.
MaxOverride == 3

RetrySettings ==
    {Setting("undefined", 0), Setting("text", 0)}
        \cup {Setting("int", n) : n \in (-1)..MaxOverride}

Envs == {[AI_ENDPOINT |-> e, AI_RETRIES |-> r] : e \in Endpoints, r \in RetrySettings}

NoEnv == [AI_ENDPOINT |-> Endpoint("undefined", "", ""), AI_RETRIES |-> Setting("undefined", 0)]

\* req.body.approved of /api/ai/generate: missing, an object, or an object
\* whose content is the JSON text null.
Approvals == {"missing", "object", "contentNull"}

\* err.message of a transport error.
TransportErrors == {"ECONNRESET", "ENOTFOUND"}

\* new Error("LLM request timed out"), server.js:562
TimedOut == "LLM request timed out"

\* The status codes of the upstream responses.
StatusCodes == {200, 500}

\* What callLLM ended with: a returned value or a thrown error, its message
\* as the parts it is put together from.
NoResult == [kind |-> "none", value |-> JsUndefined, message |-> <<>>]
Resolved(value) == [kind |-> "resolved", value |-> value, message |-> <<>>]
Thrown(message) == [kind |-> "thrown", value |-> JsUndefined, message |-> message]

NoUpstream == JsUndefined

\* No response received.
NoStatus == 0

\* The response of /api/ai/generate.
AiResponse(status, success, code, error) ==
    [status |-> status, success |-> success, code |-> code, error |-> error]

NoAiResponse == AiResponse(0, FALSE, JsUndefined, <<>>)

\* The call of extractCode: its argument, how the loop ended, the values its
\* iterations started with, and the value returned.
Extraction(val, outcome) ==
    [val |-> val, ended |-> outcome.ended, seen |-> outcome.seen, code |-> outcome.code]

NoExtraction ==
    Extraction(JsUndefined, [ended |-> "none", seen |-> <<>>, code |-> JsUndefined])

\* The code the upstream bodies carry.
TheCode == Text("S")

\* One wrapper around a value: strings are fenced, padded or put in a JSON
\* text, and any value is put in an object, in an OpenAI chat completion or
\* in a JSON text.
Wrapped(v) ==
    {Json(v),
     Obj([code |-> v]), Obj([content |-> v]), Obj([text |-> v]), Obj([note |-> v]),
     Obj([choices |-> Arr(<<Obj([message |-> Obj([content |-> v])])>>)])}
        \cup (IF typeof(v) = "string" /\ v # Text("")
              THEN {Fence(lang, v) : lang \in Langs} \cup (IF v[1] = "pad" THEN {} ELSE {Pad(v)})
              ELSE {})

\* The deepest nesting of wrappers in an upstream body.
MaxDepth == 3

\* The values with at most d wrappers around a plain one.
RECURSIVE Values(_)
Values(d) ==
    IF d = 0
    THEN {TheCode, Text(""), JsNull, Num(42), Bool(TRUE), Obj([choices |-> Arr(<<>>)])}
    ELSE Values(d - 1) \cup UNION {Wrapped(v) : v \in Values(d - 1)}

\* The highest tower of one wrapper in an upstream body.
MaxTower == 11

\* n objects with a content field, or n fences, one in the other, around the code.
RECURSIVE Tower(_, _)
Tower(kind, n) ==
    IF n = 0 THEN TheCode
    ELSE IF kind = "content" THEN Obj([content |-> Tower(kind, n - 1)])
    ELSE Fence("ts", Tower(kind, n - 1))

\* The response bodies of the upstream: the JSON texts that hand a tower to
\* extractCode, and the strings of bounded depth.
Towers ==
    {Json(Obj([code |-> Tower(kind, n)])) : kind \in {"content", "fence"}, n \in 1..MaxTower}

UpstreamBodies == {v \in Values(MaxDepth) : typeof(v) = "string"} \cup Towers

\* The response bodies the retry loop is run with.
SampleBodies == {TheCode, Json(Obj([code |-> TheCode])), Json(JsNull)}

\* One rejected attempt: "error" for a transport error, "timeout" for the
\* timeout event.
Failure(n, kind, message) == [attempt |-> n, kind |-> kind, message |-> message]

\* ------------------------------------------------ /api/test/run: data shapes
\* step.type: the four cases of the switch, server.js:809-824, and one type
\* that is none of them.
StepTypes == {"navigate", "click", "fill", "wait", "hover"}

\* step.timeout: 0 stands for a step that gives none (undefined, or 0, which
\* is falsy as well).
StepTimeouts == {0, 3000}

\* The steps a request can hold: every type without a timeout, and click and
\* wait with one.
StepInputs ==
    {[type |-> ty, timeout |-> 0] : ty \in StepTypes}
        \cup {[type |-> ty, timeout |-> 3000] : ty \in {"click", "wait"}}

RECURSIVE SeqsUpTo(_, _)
SeqsUpTo(S, n) ==
    IF n = 0 THEN {<<>>}
    ELSE LET shorter == SeqsUpTo(S, n - 1)
         IN  shorter \cup {Append(s, x) : s \in {q \in shorter : Len(q) = n - 1}, x \in S}

\* req.body: { url, steps }; hasSteps is FALSE for a body without steps.
Bodies ==
    {[url |-> "u1", steps |-> s, hasSteps |-> TRUE] : s \in SeqsUpTo(StepInputs, MaxSteps)}
        \cup {[url |-> "u1", steps |-> <<>>, hasSteps |-> FALSE]}

NoBody == [url |-> "", steps |-> <<>>, hasSteps |-> FALSE]

\* error.message of a rejected browser call.
Messages == {"m1", "m2"}

\* How an awaited browser call ends: it resolves, or rejects with a message.
Outcomes == {[ok |-> TRUE, message |-> ""]} \cup {[ok |-> FALSE, message |-> m] : m \in Messages}

\* failureReason = null
Null == <<>>

\* A field the response object does not have.
Undefined == "undefined"

\* A number of milliseconds, Date.now() - startTime.
Milliseconds == "number"

NoResponse ==
    [code |-> 0, success |-> Undefined, status |-> Undefined, duration |-> Undefined,
     steps |-> <<>>, error |-> Null]

\* One call on the browser or its page: at "nav" (server.js:802), at "step"
\* (811-822, step is i + 1) or at "end" (839-840).
Call(at, step, call, timeout) == [at |-> at, step |-> step, call |-> call, timeout |-> timeout]

\* One rejected call: at "launch" (server.js:788), "nav" or "step".
Rejection(at, step, message) == [at |-> at, step |-> step, message |-> message]

\* The history of rejections after a call that ended with outcome.
Rejections(at, step, outcome) ==
    IF outcome.ok THEN rejected ELSE Append(rejected, Rejection(at, step, outcome.message))

\* ------------------------------------- /api/test/run-codegen: data shapes
\* Number of run-codegen requests in one behaviour.
MaxRequests == 2
Requests == 1..MaxRequests

\* What spawn("npx", args, ...) does: it returns the ChildProcess or throws.
SuiteSpawns == {"spawned", "throws"}

\* The exit code the close listener receives: 0, or a failure.
ExitCodes == {0, 1}

\* The response of run-codegen: the HTTP status and the "status" of its body.
RunCodegenResponse(code, status) == [code |-> code, status |-> status]
NoRunCodegenResponse == RunCodegenResponse(0, "none")

\* A spec file the test run loaded: its path and the request whose code it holds.
Loaded(path) == [path |-> path, code |-> testsDir[path]]

\* A request not received yet.
NoRun == [st |-> "idle", specFile |-> NoFile, executed |-> {}, res |-> NoRunCodegenResponse]

\* ---------------------------------------------- story links: data shapes
\* Number of link-tests requests in flight at once.
MaxCalls == 2
Calls == 1..MaxCalls

\* Number of stories, of test cases, and the longest testCaseIds array.
MaxStories == 2
MaxTestCases == 2
MaxIds == 2
Stories == 1..MaxStories
TestCaseIds == 1..MaxTestCases
IdLists == UNION {[1..n -> TestCaseIds] : n \in 0..MaxIds}

\* A row of ado_story_tests, by the two columns of its UNIQUE constraint
\* (the id column is a fresh uuid).
Row(storyId, testCaseId) == [ado_story_id |-> storyId, test_case_id |-> testCaseId]

\* A call slot no request has used yet.
\* (rivals is history: the ids, as sets, of the calls for the same story
\* that were in flight while this one was.)
NoCall == [st |-> "idle", storyId |-> 0, testCaseIds |-> <<>>, inserted |-> 0,
           rivals |-> {}, res |-> 0]

\* The elements of an array.
Elements(ids) == {ids[n] : n \in 1..Len(ids)}

Init ==
    /\ now = 1
    /\ activeCodegenSessions = <<>>
    /\ sessionData = [p \in Procs |-> NoSession]
    /\ process = [p \in Procs |-> NoProcess]
    /\ files = [path \in Ids |-> NoFile]
    /\ nextProc = 1
    /\ saved = {}
    /\ last = Step("init", 0, 0)
    /\ unhandled = FALSE
    /\ body = NoBody
    /\ pc = "idle"
    /\ browser = "none"
    /\ i = 0
    /\ stepResults = <<>>
    /\ testFailed = FALSE
    /\ failureReason = Null
    /\ dispatched = <<>>
    /\ rejected = <<>>
    /\ res = NoResponse
    /\ env = NoEnv
    /\ llmPc = "idle"
    /\ isOpenAIChat = FALSE
    /\ maxRetries = 0
    /\ attempt = 0
    /\ requests = 0
    /\ waits = <<>>
    /\ failures = <<>>
    /\ upstream = NoUpstream
    /\ upstreamStatus = NoStatus
    /\ llmResp = NoResult
    /\ extracted = NoExtraction
    /\ aiRes = NoAiResponse
    /\ testsDir = [path \in Ids |-> NoFile]
    /\ runs = [r \in Requests |-> NoRun]
    /\ ado_story_tests = {}
    /\ linkCalls = [c \in Calls |-> NoCall]
    /\ dbError = FALSE

\* The wall clock advances between two handlers.
Tick ==
    /\ now < MaxClock
    /\ now' = now + 1
    /\ last' = Step("tick", 0, 0)
    /\ UNCHANGED <<state, saved>>

\* A handler given an unknown id but lacking the if (!session) test: reading
\* session.outputFile throws and the handler answers 500.
NotFound_unchecked(op, id) ==
    /\ last' = Step(op, id, 500)
    /\ UNCHANGED <<now, state, saved>>

\* if (!session) return res.status(404).json({ error: "Session not found" })
NotFound(op, id) ==
    /\ last' = Step(op, id, 404)
    /\ UNCHANGED <<now, state, saved>>

\* ------------------------------------------------ POST /api/codegen/start
\* What spawn() can do: return a ChildProcess with a pid, return one without
\* a pid (the executable could not be started), or throw (an argument it
\* rejects).  On the ChildProcess without a pid Node emits 'error' from
\* process.nextTick, that is, right after the handler has returned and
\* before any other callback runs.
SpawnOutcomes == {"pid", "nopid", "throws"}

\* Whether codegenProcess.on("error", ...), server.js:150, has been reached
\* when the handler is done with a ChildProcess that spawn returned.
ErrorListener(outcome) == outcome = "pid"

\* sessionData as built at server.js:130-138 (process is the ChildProcess of
\* the same index, outputFile follows from sessionId, startTime is never read).
NewSession(sessionId, testName, url) ==
    [sessionId |-> sessionId, testName |-> testName, url |-> url,
     generatedCode |-> EmptyCode]

NewProcess == [st |-> "running", killed |-> FALSE]

Start(url, testName) ==
    \E outcome \in SpawnOutcomes :
        LET sessionId == now IN
        /\ outcome = "pid" => nextProc <= MaxProcs
        /\ CASE outcome = "pid" ->
                  \* registers under sessionId, replacing what the Map held there
                  /\ process' = [process EXCEPT ![nextProc] = NewProcess]
                  /\ sessionData' = [sessionData EXCEPT
                                        ![nextProc] = NewSession(sessionId, testName, url)]
                  /\ activeCodegenSessions' =
                         MapSet(activeCodegenSessions, sessionId, nextProc)
                  /\ nextProc' = nextProc + 1
                  /\ last' = [Step("start", sessionId, 200) EXCEPT !.proc = nextProc]
                  /\ UNCHANGED <<files, unhandled>>
             [] outcome = "nopid" ->
                  \* if (!codegenProcess || !codegenProcess.pid) return 500: the
                  \* handler returns above the lines that attach the listeners
                  /\ last' = Step("start", sessionId, 500)
                  /\ unhandled' = ~ErrorListener("nopid")
                  /\ UNCHANGED state
             [] outcome = "throws" ->
                  \* catch: activeCodegenSessions.delete(sessionId); 500
                  /\ activeCodegenSessions' = MapDelete(activeCodegenSessions, sessionId)
                  /\ last' = Step("start", sessionId, 500)
                  /\ UNCHANGED <<sessionData, process, files, nextProc, unhandled>>
        /\ UNCHANGED <<now, saved>>

\* -------------------------------------- GET /api/codegen/status/:sessionId
\* const isRunning = session.process && !session.process.killed
IsRunning(p) == ~process[p].killed

\* The fs.existsSync / fs.readFileSync pair of status, save and stop.
ReadArtifact(path) == IF existsSync(path) THEN readFileSync(path) ELSE EmptyCode

\* status storing the code it read in the session.
Status_caching(id) ==
    IF ~Registered(id)
    THEN NotFound("status", id)
    ELSE LET p == activeCodegenSessions[id]
             session == sessionData[p]
             path == outputFile(session.sessionId)
         IN  /\ last' = [Step("status", id, 200) EXCEPT
                            !.proc = p,
                            !.isRunning = IsRunning(p),
                            !.fileExisted = existsSync(path),
                            !.generatedCode = ReadArtifact(path),
                            !.name = session.testName,
                            !.url = session.url]
             /\ sessionData' = [sessionData EXCEPT ![p].generatedCode = ReadArtifact(path)]
             /\ UNCHANGED <<now, activeCodegenSessions, process, files, nextProc, saved>>

\* status answering the generatedCode cached in sessionData, not the file.
Status_cached(id) ==
    IF ~Registered(id)
    THEN NotFound("status", id)
    ELSE LET p == activeCodegenSessions[id]
             session == sessionData[p]
             path == outputFile(session.sessionId)
         IN  /\ last' = [Step("status", id, 200) EXCEPT
                            !.proc = p,
                            !.isRunning = IsRunning(p),
                            !.fileExisted = existsSync(path),
                            !.generatedCode = session.generatedCode,
                            !.name = session.testName,
                            !.url = session.url]
             /\ UNCHANGED <<now, state, saved>>

Status(id) ==
    IF ~Registered(id)
    THEN NotFound("status", id)
    ELSE LET p == activeCodegenSessions[id]
             session == sessionData[p]
             path == outputFile(session.sessionId)
         IN  /\ last' = [Step("status", id, 200) EXCEPT
                            !.proc = p,
                            !.isRunning = IsRunning(p),
                            !.fileExisted = existsSync(path),
                            !.generatedCode = ReadArtifact(path),
                            !.name = session.testName,
                            !.url = session.url]
             /\ UNCHANGED <<now, state, saved>>

\* ------------------------------------------------- POST /api/codegen/save
\* fs.unlinkSync(path) of an existing file
unlinkSync(path) == [files EXCEPT ![path] = NoFile]

\* The try block of save, server.js:231-280: the code it read, the files it
\* leaves and whether a file-system call threw (readFileSync and unlinkSync
\* throw on a missing file; both calls are behind fs.existsSync).
SaveTry(path) ==
    IF existsSync(path)
    THEN [threw |-> FALSE, generatedCode |-> readFileSync(path), files |-> unlinkSync(path)]
    ELSE [threw |-> FALSE, generatedCode |-> EmptyCode, files |-> files]

\* name: session.testName || testName
TestName_sessionFirst(testName, session) ==
    IF session.testName # NoName THEN session.testName ELSE testName

\* name: testName || session.testName
TestName(testName, session) == IF testName # NoName THEN testName ELSE session.testName

Save(id, testName) ==
    IF ~Registered(id)
    THEN NotFound("save", id)
    ELSE LET p == activeCodegenSessions[id]
             session == sessionData[p]
             path == outputFile(session.sessionId)
             try == SaveTry(path)
         IN  IF try.threw
             THEN \* catch: 500, nothing cleaned up
                  /\ last' = [Step("save", id, 500) EXCEPT
                                 !.proc = p, !.fileExisted = existsSync(path)]
                  /\ UNCHANGED <<now, state, saved>>
             ELSE /\ last' = [Step("save", id, 200) EXCEPT
                                 !.proc = p,
                                 !.fileExisted = existsSync(path),
                                 !.generatedCode = try.generatedCode,
                                 !.name = TestName(testName, session),
                                 !.url = session.url,
                                 !.testStatus = "Not Run",
                                 !.reqName = testName]
                  /\ files' = try.files
                  /\ activeCodegenSessions' = MapDelete(activeCodegenSessions, id)
                  /\ saved' = saved \cup {id}
                  /\ UNCHANGED <<now, sessionData, process, nextProc>>

\* ------------------------------------------------- POST /api/codegen/stop
\* if (session.process && !session.process.killed) session.process.kill():
\* ChildProcess.kill() sends the signal, and sets killed, only while the
\* process has not exited; killed says that a signal was sent, not that the
\* process is gone.
Kill_omitted(pr) == pr

Kill(pr) ==
    IF ~pr.killed /\ pr.st = "running"
    THEN [pr EXCEPT !.killed = TRUE]
    ELSE pr

\* stop reading and unlinking without asking fs.existsSync first.
StopTry_noExistsCheck(path) ==
    IF existsSync(path)
    THEN [threw |-> FALSE, generatedCode |-> readFileSync(path), files |-> unlinkSync(path)]
    ELSE [threw |-> TRUE, generatedCode |-> EmptyCode, files |-> files]

\* The rest of the try block of stop, server.js:301-314.
StopTry(path) ==
    IF existsSync(path)
    THEN [threw |-> FALSE, generatedCode |-> readFileSync(path), files |-> unlinkSync(path)]
    ELSE [threw |-> FALSE, generatedCode |-> EmptyCode, files |-> files]

Stop(id) ==
    IF ~Registered(id)
    THEN NotFound("stop", id)
    ELSE LET p == activeCodegenSessions[id]
             session == sessionData[p]
             path == outputFile(session.sessionId)
             try == StopTry(path)
         IN  /\ process' = [process EXCEPT ![p] = Kill(process[p])]
             /\ IF try.threw
                THEN \* catch: 500, the session stays registered
                     /\ last' = [Step("stop", id, 500) EXCEPT
                                    !.proc = p, !.fileExisted = existsSync(path)]
                     /\ UNCHANGED <<files, activeCodegenSessions>>
                ELSE /\ last' = [Step("stop", id, 200) EXCEPT
                                    !.proc = p,
                                    !.fileExisted = existsSync(path),
                                    !.generatedCode = try.generatedCode]
                     /\ files' = try.files
                     /\ activeCodegenSessions' = MapDelete(activeCodegenSessions, id)
             /\ UNCHANGED <<now, sessionData, nextProc, saved>>

\* ---------------------------------------------------------- the subprocess
\* playwright codegen --output <outputFile>: the running subprocess (re)writes
\* its output file; a signalled subprocess runs until it has exited.
ProcWrite(p, c) ==
    /\ process[p].st = "running"
    /\ files' = [files EXCEPT ![outputFile(sessionData[p].sessionId)] = c]
    /\ last' = [Step("write", 0, 0) EXCEPT !.proc = p]
    /\ UNCHANGED <<now, activeCodegenSessions, sessionData, process, nextProc, saved>>

\* The subprocess exits: the user closed its window, it crashed, or it was
\* signalled.
ProcExit(p) ==
    /\ process[p].st = "running"
    /\ process' = [process EXCEPT ![p].st = "exited"]
    /\ last' = [Step("exit", 0, 0) EXCEPT !.proc = p]
    /\ UNCHANGED <<now, activeCodegenSessions, sessionData, files, nextProc, saved>>

\* The body of the close listener, server.js:156-160: the sessionData it
\* leaves and whether it threw (readFileSync throws on a missing file).
CloseTry(path, session) ==
    IF existsSync(path)
    THEN [threw |-> FALSE, session |-> [session EXCEPT !.generatedCode = readFileSync(path)]]
    ELSE [threw |-> FALSE, session |-> session]

\* An exception thrown by a listener is caught by nothing: it is answered by
\* no handler, and is recorded here as the status of the step.
Uncaught == 500

\* codegenProcess.on("close", ...), server.js:155-161
OnClose(p) ==
    LET path == outputFile(sessionData[p].sessionId)
        try == CloseTry(path, sessionData[p])
    IN
    /\ process[p].st = "exited"
    /\ process' = [process EXCEPT ![p].st = "closed"]
    /\ sessionData' = [sessionData EXCEPT ![p] = try.session]
    /\ last' = [Step("close", 0, IF try.threw THEN Uncaught ELSE 0) EXCEPT
                   !.proc = p, !.fileExisted = existsSync(path)]
    /\ UNCHANGED <<now, activeCodegenSessions, files, nextProc, saved>>

\* codegenProcess.on("error", ...), server.js:150-153: Node emits 'error' on
\* a ChildProcess that could not be killed or was aborted.
OnError(p) ==
    /\ process[p].st = "running"
    /\ activeCodegenSessions' =
           MapDelete(activeCodegenSessions, sessionData[p].sessionId)
    /\ last' = [Step("error", 0, 0) EXCEPT !.proc = p]
    /\ UNCHANGED <<now, sessionData, process, files, nextProc, saved>>

\* -------------------------------------------------------------------- Next
\* ============================================================ /api/test/run
\* The handler of server.js:781-855, one action per await. Browser calls made
\* on a browser that is running are taken to resolve when they cannot time
\* out or fail on the page: newContext, newPage, waitForTimeout and close.
\* chromium.launch, page.goto, locator.click and locator.fill may reject.

LocatorTimeout == 5000
DefaultWait == 1000
SettleDelay == 2000

\* The response of the outer catch, server.js:851-854:
\* res.status(500).json({ status: "failed", error: error.message, steps: [] })
CatchResponse(message) ==
    [code |-> 500, success |-> Undefined, status |-> "failed", duration |-> Undefined,
     steps |-> <<>>, error |-> <<message>>]

\* A rejection that is swallowed: the handler goes on into the loop.
OuterCatch_swallowed(message) ==
    /\ res' = res
    /\ pc' = IF 0 < Len(body.steps) THEN "step" ELSE "settle"

\* An await of the outer try block rejected: the catch answers and the
\* handler ends; nothing else is touched (the browser, if launched, stays).
OuterCatch(message) ==
    /\ res' = CatchResponse(message)
    /\ pc' = "idle"

\* A request arrives (server.js:781-786); the handler's locals are fresh.
\* steps.length of a body without steps throws. One run is followed from its
\* request to its response: runs share no variable, each has locals and a
\* browser of its own.
Receive(b) ==
    /\ pc = "idle"
    /\ res = NoResponse
    /\ body' = b
    /\ browser' = "none"
    /\ i' = 0
    /\ stepResults' = <<>>
    /\ testFailed' = FALSE
    /\ failureReason' = Null
    /\ dispatched' = <<>>
    /\ rejected' = <<>>
    /\ IF b.hasSteps
       THEN res' = NoResponse /\ pc' = "launch"
       ELSE res' = CatchResponse("TypeError") /\ pc' = "idle"

\* await chromium.launch({ headless: false }), server.js:788
Launch(outcome) ==
    /\ pc = "launch"
    /\ IF outcome.ok
       THEN browser' = "open" /\ pc' = "newPage" /\ UNCHANGED res
       ELSE OuterCatch(outcome.message) /\ UNCHANGED browser
    /\ rejected' = Rejections("launch", 0, outcome)
    /\ UNCHANGED <<body, i, stepResults, testFailed, failureReason, dispatched>>

\* browser.newContext(), context.newPage() and the three locals, server.js:789-800
NewPage ==
    /\ pc = "newPage"
    /\ stepResults' = <<>>
    /\ testFailed' = FALSE
    /\ failureReason' = Null
    /\ pc' = "goto"
    /\ UNCHANGED <<body, browser, i, dispatched, rejected, res>>

\* Where the handler goes when the loop is at index k: into the next
\* iteration, or past the loop to the settle delay (server.js:804, 839).
LoopAt(k) == IF k < Len(body.steps) THEN "step" ELSE "settle"

\* await page.goto(url), server.js:802, and for (let i = 0; ...
Goto(outcome) ==
    /\ pc = "goto"
    /\ dispatched' = Append(dispatched, Call("nav", 0, "goto", 0))
    /\ IF outcome.ok
       THEN i' = 0 /\ pc' = LoopAt(0) /\ UNCHANGED res
       ELSE OuterCatch(outcome.message) /\ UNCHANGED i
    /\ rejected' = Rejections("nav", 0, outcome)
    /\ UNCHANGED <<body, browser, stepResults, testFailed, failureReason>>

\* The switch sending every click twice.
StepCalls_clickTwice(step, k) ==
    CASE step.type = "navigate" -> <<Call("step", k + 1, "goto", 0)>>
      [] step.type = "click" -> <<Call("step", k + 1, "click", LocatorTimeout),
                                  Call("step", k + 1, "click", LocatorTimeout)>>
      [] step.type = "fill" -> <<Call("step", k + 1, "fill", LocatorTimeout)>>
      [] step.type = "wait" ->
            <<Call("step", k + 1, "waitForTimeout",
                   IF step.timeout # 0 THEN step.timeout ELSE DefaultWait)>>
      [] OTHER -> <<>>

\* The calls the switch makes for the step at index k, server.js:809-824; a
\* type that matches no case makes none.
StepCalls(step, k) ==
    CASE step.type = "navigate" -> <<Call("step", k + 1, "goto", 0)>>
      [] step.type = "click" -> <<Call("step", k + 1, "click", LocatorTimeout)>>
      [] step.type = "fill" -> <<Call("step", k + 1, "fill", LocatorTimeout)>>
      [] step.type = "wait" ->
            <<Call("step", k + 1, "waitForTimeout",
                   IF step.timeout # 0 THEN step.timeout ELSE DefaultWait)>>
      [] OTHER -> <<>>

\* A switch in which a step of any type may reject.
MayReject_any(step) == TRUE

\* The calls of the switch that may reject.
MayReject(step) == step.type \in {"navigate", "click", "fill"}

\* A failed step result that leaves the error message out.
StepResult_noMessage(k, outcome) ==
    IF outcome.ok
    THEN [stepIndex |-> k, status |-> "passed", error |-> Undefined]
    ELSE [stepIndex |-> k, status |-> "failed", error |-> Undefined]

\* The step result pushed at server.js:825 or 830-834.
StepResult(k, outcome) ==
    IF outcome.ok
    THEN [stepIndex |-> k, status |-> "passed", error |-> Undefined]
    ELSE [stepIndex |-> k, status |-> "failed", error |-> outcome.message]

\* `Step ${i + 1} (${step.type}): ${error.message}`, server.js:829, as the
\* parts of the template literal.
FailureReason(k, step, message) ==
    <<"Step ", ToString(k + 1), " (", step.type, "): ", message>>

\* A loop whose break goes past the settle delay.
AfterStep_noSettle(k, ok) ==
    IF ok THEN [i |-> k + 1, pc |-> LoopAt(k + 1)] ELSE [i |-> k, pc |-> "close"]

\* A loop that goes on to the next step after a failed one (no break).
AfterStep_noBreak(k, ok) == [i |-> k + 1, pc |-> LoopAt(k + 1)]

\* After the iteration at index k: i++ and the loop test, or the break of
\* server.js:835, which leaves i as it is.
AfterStep(k, ok) ==
    IF ok THEN [i |-> k + 1, pc |-> LoopAt(k + 1)] ELSE [i |-> k, pc |-> "settle"]

\* One iteration of the loop, server.js:805-836.
RunStep(outcome) ==
    LET step == body.steps[i + 1] IN
    /\ pc = "step"
    /\ outcome.ok \/ MayReject(step)
    /\ dispatched' = dispatched \o StepCalls(step, i)
    /\ stepResults' = Append(stepResults, StepResult(i, outcome))
    /\ testFailed' = (testFailed \/ ~outcome.ok)
    /\ failureReason' = IF outcome.ok THEN failureReason
                                      ELSE FailureReason(i, step, outcome.message)
    /\ i' = AfterStep(i, outcome.ok).i
    /\ pc' = AfterStep(i, outcome.ok).pc
    /\ rejected' = Rejections("step", i + 1, outcome)
    /\ UNCHANGED <<body, browser, res>>

\* await page.waitForTimeout(2000), server.js:839
Settle ==
    /\ pc = "settle"
    /\ dispatched' = Append(dispatched, Call("end", 0, "waitForTimeout", SettleDelay))
    /\ pc' = "close"
    /\ UNCHANGED <<body, browser, i, stepResults, testFailed, failureReason, rejected, res>>

\* A run that answers "passed" whatever happened.
RunStatus_alwaysPassed(failed) == "passed"

\* status: testFailed ? "failed" : "passed", server.js:846
RunStatus(failed) == IF failed THEN "failed" ELSE "passed"

\* await browser.close() and res.json(...), server.js:840-850
Close ==
    /\ pc = "close"
    /\ dispatched' = Append(dispatched, Call("end", 0, "close", 0))
    /\ browser' = "closed"
    /\ res' = [code |-> 200, success |-> "true", status |-> RunStatus(testFailed),
               duration |-> Milliseconds, steps |-> stepResults, error |-> failureReason]
    /\ pc' = "idle"
    /\ UNCHANGED <<body, i, stepResults, testFailed, failureReason, rejected>>

\* ============================================= AI gateway: callLLM, generate
\* text.includes(part), for the hostnames and pathnames of the model
Includes(text, part) ==
    <<text, part>> \in {<<"api.openai.com", "openai.com">>,
                        <<"/v1/chat/completions", "/v1/chat/completions">>}

\* server.js:469-472
DetectOpenAIChat(url) ==
    Includes(url.hostname, "openai.com") \/ Includes(url.pathname, "/v1/chat/completions")

\* The retry count when ENV.AI_RETRIES gives none, server.js:476
DefaultRetries == 2

\* parseInt(ENV.AI_RETRIES, 10) || 2: NaN and 0 give the default, any other
\* integer is taken as it is.
RetryCount(setting) ==
    IF setting.kind = "int" /\ setting.n # 0 THEN setting.n ELSE DefaultRetries

\* A validation that lets every endpoint pass.
ConfigError_none(endpoint) == <<>>

\* The message of the error server.js:459-467 throws for the endpoint, <<>>
\* when it throws none.
ConfigError(endpoint) ==
    IF endpoint.kind \in {"undefined", "empty"} THEN <<"AI_ENDPOINT not configured">>
    ELSE IF endpoint.kind = "invalid" THEN <<"AI_ENDPOINT is not a valid URL">>
    ELSE <<>>

\* An error text that leaves the attempts out.
AttemptsError_messageOnly(message, n) == <<message>>

\* `${err.message || err} (after ${attempt} attempt(s))`, server.js:572-574
AttemptsError(message, n) == <<message, " (after ", ToString(n), " attempt(s))">>

\* The unit of the backoff, server.js:577
BackoffUnit == 1000

\* A backoff that does not grow.
BackoffMs_constant(n) == BackoffUnit

\* const backoffMs = attempt * 1000, server.js:577
BackoffMs(n) == n * BackoffUnit

\* error.message of the TypeError code.content throws for a null code
NullContent == <<"Cannot read properties of null (reading 'content')">>

\* error.message of the TypeError extractedData.intent throws
NullIntent == <<"Cannot read properties of null (reading 'intent')">>

\* What /api/ai/generate does with the outcome of callLLM, server.js:656-730:
\* the call of extractCode and the response.
GenerateResponse(result) ==
    IF result.kind = "thrown"
    THEN [extracted |-> NoExtraction,
          aiRes |-> AiResponse(500, FALSE, JsUndefined, result.message)]
    ELSE LET gen == PreNormalize(result.value)
             outcome == extractCode(gen)
         IN  [extracted |-> Extraction(gen, outcome),
              aiRes |-> IF outcome.ended = "throw"
                        THEN AiResponse(500, FALSE, JsUndefined, NullContent)
                        ELSE AiResponse(200, TRUE, outcome.code, <<>>)]

\* callLLM ends with result and the handler goes on to its response.
Finish(result) ==
    /\ llmPc' = "done"
    /\ llmResp' = result
    /\ extracted' = GenerateResponse(result).extracted
    /\ aiRes' = GenerateResponse(result).aiRes

\* The head of the loop, server.js:516, for the value n of attempt: the next
\* request is sent, or the loop is left for the throw of server.js:587.
LoopHead(n, retries) ==
    /\ attempt' = n
    /\ IF n <= retries
       THEN /\ requests' = requests + 1
            /\ llmPc' = "request"
            /\ UNCHANGED <<llmResp, extracted, aiRes>>
       ELSE /\ Finish(Thrown(<<"LLM request failed after retries">>))
            /\ UNCHANGED requests

\* POST /api/ai/generate up to the first await inside callLLM, server.js:613-654
\* and 458-533, with the environment the call reads.
Generate(approved, e) ==
    /\ llmPc = "idle"
    /\ aiRes = NoAiResponse
    /\ UNCHANGED <<waits, failures, upstream, upstreamStatus>>
    /\ IF approved = "missing"
       THEN /\ aiRes' = AiResponse(400, FALSE, JsUndefined, <<"approved payload required">>)
            /\ UNCHANGED <<env, llmPc, isOpenAIChat, maxRetries, attempt, requests, llmResp, extracted>>
       ELSE IF approved = "contentNull"
       THEN /\ aiRes' = AiResponse(500, FALSE, JsUndefined, NullIntent)
            /\ UNCHANGED <<env, llmPc, isOpenAIChat, maxRetries, attempt, requests, llmResp, extracted>>
       ELSE /\ env' = e
            /\ IF ConfigError(e.AI_ENDPOINT) # <<>>
               THEN /\ Finish(Thrown(ConfigError(e.AI_ENDPOINT)))
                    /\ UNCHANGED <<isOpenAIChat, maxRetries, attempt, requests>>
               ELSE /\ isOpenAIChat' = DetectOpenAIChat(e.AI_ENDPOINT)
                    /\ maxRetries' = RetryCount(e.AI_RETRIES)
                    /\ LoopHead(1, RetryCount(e.AI_RETRIES))

\* A gateway that takes a 5xx response for a failed attempt.
Respond_retryOn5xx(statusCode, responseBody) ==
    /\ llmPc = "request"
    /\ upstream' = responseBody
    /\ upstreamStatus' = statusCode
    /\ IF statusCode >= 500
       THEN /\ llmPc' = "backoff"
            /\ waits' = Append(waits, BackoffMs(attempt))
            /\ UNCHANGED <<llmResp, extracted, aiRes>>
       ELSE /\ Finish(Resolved(ParseResponse(responseBody, isOpenAIChat)))
            /\ UNCHANGED waits
    /\ UNCHANGED <<env, isOpenAIChat, maxRetries, attempt, requests, failures>>

\* The upstream answers the request with any status code and the response
\* ends, server.js:535-557.
Respond(statusCode, responseBody) ==
    /\ llmPc = "request"
    /\ upstream' = responseBody
    /\ upstreamStatus' = statusCode
    /\ Finish(Resolved(ParseResponse(responseBody, isOpenAIChat)))
    /\ UNCHANGED <<env, isOpenAIChat, maxRetries, attempt, requests, waits, failures>>

\* The catch of the loop, server.js:570-584, for a rejected attempt.
Catch(kind, message) ==
    /\ llmPc = "request"
    /\ failures' = Append(failures, Failure(attempt, kind, message))
    /\ IF attempt = maxRetries
       THEN /\ Finish(Thrown(AttemptsError(message, attempt)))
            /\ UNCHANGED waits
       ELSE /\ waits' = Append(waits, BackoffMs(attempt))
            /\ llmPc' = "backoff"
            /\ UNCHANGED <<llmResp, extracted, aiRes>>
    /\ UNCHANGED <<env, isOpenAIChat, maxRetries, attempt, requests, upstream, upstreamStatus>>

\* req.on("error"), server.js:560: the request fails in transport.
RequestError(message) == Catch("error", message)

\* A timeout that ends the call at once.
RequestTimeout_fatal ==
    /\ llmPc = "request"
    /\ failures' = Append(failures, Failure(attempt, "timeout", TimedOut))
    /\ Finish(Thrown(<<TimedOut>>))
    /\ UNCHANGED <<env, isOpenAIChat, maxRetries, attempt, requests, waits, upstream, upstreamStatus>>

\* req.on("timeout"), server.js:561-563: the request is destroyed with the
\* timeout error, which the error handler rejects the attempt with.
RequestTimeout == Catch("timeout", TimedOut)

\* The backoff wait is over, server.js:581, and the loop goes on.
Backoff ==
    /\ llmPc = "backoff"
    /\ LoopHead(attempt + 1, maxRetries)
    /\ UNCHANGED <<env, isOpenAIChat, maxRetries, waits, failures, upstream, upstreamStatus>>

\* ------------------------------------------- POST /api/test/run-codegen
\* specFile = path.join(testsDir, `test-${Date.now()}.spec.ts`)
SpecFile == now

\* The handler up to spawn: it writes the code of the request to its spec
\* file, rewrites playwright.config.js (always with the same text: testDir is
\* generated-tests) and spawns `npx playwright test --config ... --project
\* chromium`; a spawn that throws is answered 500 by the catch.
RunCodegen(r, outcome) ==
    /\ runs[r].st = "idle"
    /\ testsDir' = [testsDir EXCEPT ![SpecFile] = r]
    /\ runs' = [runs EXCEPT ![r] =
          IF outcome = "throws"
          THEN [@ EXCEPT !.st = "done", !.specFile = SpecFile,
                         !.res = RunCodegenResponse(500, "failed")]
          ELSE [@ EXCEPT !.st = "spawned", !.specFile = SpecFile]]

\* The subprocess of request r starts its run: the command line names no
\* file, so Playwright loads every spec file it finds in testDir.
Collect(r) ==
    /\ runs[r].st = "spawned"
    /\ runs' = [runs EXCEPT ![r].st = "testing",
                            ![r].executed = {Loaded(path) : path \in
                                {q \in Ids : testsDir[q] # NoFile}}]
    /\ UNCHANGED testsDir

\* The close listener of request r: it answers with the exit code, then
\* unlinks every file readdirSync(testsDir) lists.
SuiteClose(r, code) ==
    /\ runs[r].st \in {"spawned", "testing"}
    /\ runs' = [runs EXCEPT ![r].st = "done",
                            ![r].res = RunCodegenResponse(200, IF code = 0 THEN "passed" ELSE "failed")]
    /\ testsDir' = [path \in Ids |-> NoFile]

\* -------------------------- PATCH /api/ado/story/:storyId/link-tests
\* Call d stands between its first statement and its result.
InFlight(d) == linkCalls[d].st \in {"delete", "insert"}

\* The calls in flight for a story.
Linking(storyId) == {d \in Calls : InFlight(d) /\ linkCalls[d].storyId = storyId}

\* The handler up to its await: 400 unless testCaseIds is an array, else
\* linkTestCases, which hands the DELETE to the database and awaits it.
LinkTests(c, storyId, isArray, ids) ==
    /\ linkCalls[c].st \in {"idle", "done"}
    /\ linkCalls' = [d \in Calls |->
          IF d = c
          THEN IF isArray
               THEN [st |-> "delete", storyId |-> storyId, testCaseIds |-> ids,
                     inserted |-> 0, res |-> 0,
                     rivals |-> {Elements(linkCalls[x].testCaseIds) : x \in Linking(storyId)}]
               ELSE [NoCall EXCEPT !.st = "done", !.res = 400]
          ELSE IF isArray /\ d \in Linking(storyId)
               THEN [linkCalls[d] EXCEPT !.rivals = @ \cup {Elements(ids)}]
               ELSE linkCalls[d]]
    /\ UNCHANGED <<ado_story_tests, dbError>>

\* DELETE FROM ado_story_tests WHERE ado_story_id = ? runs and its callback
\* resolves the await: the call prepares the INSERT, queues one run of it
\* per id, and finalize.
Delete(c) ==
    /\ linkCalls[c].st = "delete"
    /\ ado_story_tests' = {row \in ado_story_tests : row.ado_story_id # linkCalls[c].storyId}
    /\ linkCalls' = [linkCalls EXCEPT ![c].st = "insert"]
    /\ UNCHANGED dbError

\* The row the next queued run of the INSERT inserts.
NextRow(c) == Row(linkCalls[c].storyId, linkCalls[c].testCaseIds[linkCalls[c].inserted + 1])

\* The next stmt.run of call c runs: it inserts its row, or fails on
\* UNIQUE(ado_story_id, test_case_id); stmt.run was given no callback, so the
\* failure is an 'error' event without a listener.
Insert(c) ==
    /\ linkCalls[c].st = "insert"
    /\ linkCalls[c].inserted < Len(linkCalls[c].testCaseIds)
    /\ IF NextRow(c) \in ado_story_tests
       THEN /\ dbError' = TRUE
            /\ UNCHANGED <<ado_story_tests, linkCalls>>
       ELSE /\ ado_story_tests' = ado_story_tests \cup {NextRow(c)}
            /\ linkCalls' = [linkCalls EXCEPT ![c].inserted = @ + 1]
            /\ UNCHANGED dbError

\* stmt.finalize runs after the queued inserts: linkTestCases resolves and
\* the handler answers success.
Finalize(c) ==
    /\ linkCalls[c].st = "insert"
    /\ linkCalls[c].inserted = Len(linkCalls[c].testCaseIds)
    /\ linkCalls' = [linkCalls EXCEPT ![c].st = "done", ![c].res = 200]
    /\ UNCHANGED <<ado_story_tests, dbError>>

\* The server is up: handlers and listeners run until an exception nothing
\* catches has ended the Node process.
Serving == ~unhandled

Next ==
    \/ Serving /\ Tick /\ UNCHANGED <<unhandled, runVars, llmVars, suiteVars, linkVars>>
    \/ Serving /\ \E req \in StartRequests : Start(req.url, req.testName) /\ UNCHANGED <<runVars, llmVars, suiteVars, linkVars>>
    \/ Serving /\ \E id \in Ids : Status(id) /\ UNCHANGED <<unhandled, runVars, llmVars, suiteVars, linkVars>>
    \/ Serving /\ \E id \in Ids, testName \in TestNames : Save(id, testName) /\ UNCHANGED <<unhandled, runVars, llmVars, suiteVars, linkVars>>
    \/ Serving /\ \E id \in Ids : Stop(id) /\ UNCHANGED <<unhandled, runVars, llmVars, suiteVars, linkVars>>
    \/ Serving /\ \E p \in Procs, c \in Codes : ProcWrite(p, c) /\ UNCHANGED <<unhandled, runVars, llmVars, suiteVars, linkVars>>
    \/ Serving /\ \E p \in Procs : ProcExit(p) /\ UNCHANGED <<unhandled, runVars, llmVars, suiteVars, linkVars>>
    \/ Serving /\ \E p \in Procs : OnClose(p) /\ UNCHANGED <<unhandled, runVars, llmVars, suiteVars, linkVars>>
    \/ Serving /\ \E p \in Procs : OnError(p) /\ UNCHANGED <<unhandled, runVars, llmVars, suiteVars, linkVars>>

\* The recorder endpoints and the subprocesses they supervise.
Spec == Init /\ [][Next]_vars

RunNext ==
    \/ \E b \in Bodies : Receive(b) /\ UNCHANGED <<codegenVars, llmVars, suiteVars, linkVars>>
    \/ \E outcome \in Outcomes : Launch(outcome) /\ UNCHANGED <<codegenVars, llmVars, suiteVars, linkVars>>
    \/ NewPage /\ UNCHANGED <<codegenVars, llmVars, suiteVars, linkVars>>
    \/ \E outcome \in Outcomes : Goto(outcome) /\ UNCHANGED <<codegenVars, llmVars, suiteVars, linkVars>>
    \/ \E outcome \in Outcomes : RunStep(outcome) /\ UNCHANGED <<codegenVars, llmVars, suiteVars, linkVars>>
    \/ Settle /\ UNCHANGED <<codegenVars, llmVars, suiteVars, linkVars>>
    \/ Close /\ UNCHANGED <<codegenVars, llmVars, suiteVars, linkVars>>

\* The step runner serving one request.
RunSpec == Init /\ [][RunNext]_vars

LLMNext ==
    \/ \E approved \in Approvals, e \in Envs : Generate(approved, e) /\ UNCHANGED <<codegenVars, runVars, suiteVars, linkVars>>
    \/ \E statusCode \in StatusCodes, b \in SampleBodies :
          Respond(statusCode, b) /\ UNCHANGED <<codegenVars, runVars, suiteVars, linkVars>>
    \/ \E message \in TransportErrors : RequestError(message) /\ UNCHANGED <<codegenVars, runVars, suiteVars, linkVars>>
    \/ RequestTimeout /\ UNCHANGED <<codegenVars, runVars, suiteVars, linkVars>>
    \/ Backoff /\ UNCHANGED <<codegenVars, runVars, suiteVars, linkVars>>

\* The AI gateway serving one generate request, under every configuration.
LLMSpec == Init /\ [][LLMNext]_vars

\* The configurations with a well-formed endpoint and no retry count.
GenerateEnvs == {e \in Envs : e.AI_ENDPOINT.kind = "url" /\ e.AI_RETRIES.kind = "undefined"}

GenerateNext ==
    \/ \E e \in GenerateEnvs : Generate("object", e) /\ UNCHANGED <<codegenVars, runVars, suiteVars, linkVars>>
    \/ \E statusCode \in StatusCodes, b \in UpstreamBodies :
          Respond(statusCode, b) /\ UNCHANGED <<codegenVars, runVars, suiteVars, linkVars>>

\* The AI gateway serving one generate request, under every response body.
GenerateSpec == Init /\ [][GenerateNext]_vars

SuiteNext ==
    \/ Tick /\ UNCHANGED <<unhandled, runVars, llmVars, suiteVars, linkVars>>
    \/ \E r \in Requests, outcome \in SuiteSpawns :
          RunCodegen(r, outcome) /\ UNCHANGED <<codegenVars, runVars, llmVars, linkVars>>
    \/ \E r \in Requests : Collect(r) /\ UNCHANGED <<codegenVars, runVars, llmVars, linkVars>>
    \/ \E r \in Requests, code \in ExitCodes :
          SuiteClose(r, code) /\ UNCHANGED <<codegenVars, runVars, llmVars, linkVars>>

\* The generated-test runner serving its requests as they come.
SuiteSpec == Init /\ [][SuiteNext]_vars

\* The database connection is there: no exception has ended the Node process.
Connected == ~dbError

LinkNext ==
    \/ Connected /\ \E c \in Calls, storyId \in Stories, isArray \in BOOLEAN, ids \in IdLists :
          LinkTests(c, storyId, isArray, ids) /\ UNCHANGED <<codegenVars, runVars, llmVars, suiteVars>>
    \/ Connected /\ \E c \in Calls : Delete(c) /\ UNCHANGED <<codegenVars, runVars, llmVars, suiteVars>>
    \/ Connected /\ \E c \in Calls : Insert(c) /\ UNCHANGED <<codegenVars, runVars, llmVars, suiteVars>>
    \/ Connected /\ \E c \in Calls : Finalize(c) /\ UNCHANGED <<codegenVars, runVars, llmVars, suiteVars>>

\* The story links under the link-tests requests as they come.
LinkSpec == Init /\ [][LinkNext]_vars

\* ================================================================== claims
\* Process p was spawned by a successful start.
Started(p) == process[p].st # "none"

\* The subprocess of p has not exited.
Alive(p) == process[p].st = "running"

\* The registry still holds the sessionData of p.
InRegistry(p) ==
    /\ Registered(sessionData[p].sessionId)
    /\ activeCodegenSessions[sessionData[p].sessionId] = p

\* The handler of the step just taken found its session (it did not answer 404).
Answered(op, status) == last.op = op /\ last.status = status

\* C1: after a successful save the session's subprocess is terminated, its
\* artifact file is deleted and the session is out of the registry.
C1_SaveTerminatesAndCleans ==
    Answered("save", 200) =>
        /\ ~Alive(last.proc)
        /\ ~existsSync(outputFile(last.sessionId))
        /\ ~Registered(last.sessionId)

\* C2: every exit path cleans up both resources: when save, stop or a
\* subprocess event handler takes a session out of the registry, the
\* subprocess of that session is not alive and its artifact file does not
\* exist.
C2_ExitPathsCleanUp ==
    [][\A p \in Procs :
          (/\ last'.op \in {"save", "stop", "exit", "close", "error"}
           /\ InRegistry(p)
           /\ ~(Registered(sessionData[p].sessionId))')
          => (/\ ~Alive(p)
              /\ ~existsSync(outputFile(sessionData[p].sessionId)))']_vars

\* C3: the running flag answered by status is true exactly when the
\* session's subprocess is still alive.
C3_RunningIffAlive ==
    Answered("status", 200) => (last.isRunning <=> Alive(last.proc))

\* C4: a registered session stays in the registry until a save or a stop
\* removes it: no subprocess event (exit, close, error) takes a registered
\* session id out of the registry.
C4_NoSubprocessEventDeregisters ==
    [][last'.op \in {"exit", "close", "error"} =>
          \A id \in Ids : Registered(id) => (Registered(id))']_vars

\* C5: session ids are unique: no two successful starts got the same id.
C5_SessionIdsUnique ==
    \A p, q \in Procs :
        (Started(p) /\ Started(q) /\ p # q) =>
            sessionData[p].sessionId # sessionData[q].sessionId

\* C6: after a successful save on an id, every later status on that id
\* answers 404.
C6_StatusAfterSaveNotFound ==
    (last.op = "status" /\ last.sessionId \in saved) => last.status = 404

C8_StopPostcondition ==
    Answered("stop", 200) =>
        /\ Alive(last.proc) => process[last.proc].killed
        /\ ~existsSync(outputFile(last.sessionId))
        /\ ~Registered(last.sessionId)

\* A stop that found the subprocess alive and the artifact written.
C8_Witness ==
    /\ Answered("stop", 200)
    /\ Alive(last.proc)
    /\ process[last.proc].killed
    /\ last.fileExisted

\* C9: a stop on a registered session answers 200 and deregisters the
\* session, whether or not the artifact file existed.
C9_StopToleratesMissingFile ==
    (last.op = "stop" /\ last.proc # NoProc) =>
        /\ last.status = 200
        /\ ~Registered(last.sessionId)

\* A stop that found no artifact file and succeeded.
C9_Witness ==
    /\ Answered("stop", 200)
    /\ ~last.fileExisted

\* C10: a start that fails (no pid, or spawn throws) leaves the registry as
\* it was.
C10_FailedStartKeepsRegistry ==
    [][(last'.op = "start" /\ last'.status = 500) =>
          activeCodegenSessions' = activeCodegenSessions]_vars

C11_WitnessFresh ==
    /\ Answered("status", 200)
    /\ ~last.fileExisted
    /\ last.isRunning
    /\ Alive(last.proc)

\* The record of a successful save against the state the save found: the url
\* and the fallback name of the session as the start stored them, the code
\* the file held (empty without a file), the name of the request if it gave
\* one, and the given status text.
SaveRecordIs(statusText) ==
    (last'.op = "save" /\ last'.status = 200) =>
        LET session == sessionData[last'.proc]
            path == outputFile(session.sessionId)
        IN  /\ last'.url = session.url
            /\ last'.generatedCode =
                   (IF files[path] # NoFile THEN files[path] ELSE EmptyCode)
            /\ last'.name =
                   (IF last'.reqName # NoName THEN last'.reqName ELSE session.testName)
            /\ last'.testStatus = statusText

\* C12 as stated: the record of a save has the url given to start, the code
\* the file held at the save (empty without a file), the testName of the
\* save or else the one given to start, and status "not run".
C12_SaveRecord_NotRunLowercase == [][SaveRecordIs("not run")]_vars

\* C12 amended: the same record, with the status text the code writes,
\* "Not Run".
C12_SaveRecord == [][SaveRecordIs("Not Run")]_vars

\* A save without a testName of its own returned the code of an existing
\* file under the name given to start.
C12_Witness ==
    /\ Answered("save", 200)
    /\ last.fileExisted
    /\ last.generatedCode # EmptyCode
    /\ last.reqName = NoName
    /\ last.name = "t1"
    /\ last.url = "u1"

\* No other started subprocess has the session id of p.
OwnId(p) ==
    \A q \in Procs :
        (Started(q) /\ q # p) => sessionData[q].sessionId # sessionData[p].sessionId

\* C13: the close listener and a save or stop on the same session may come
\* in either order: the save or stop answers 200, the close listener throws
\* nothing, and once both have happened the session is deregistered and its
\* file deleted. Stated for a session whose id no other session has; the
\* order "request first" is stated for save.
C13_CloseAndSaveInEitherOrder ==
    [][/\ last'.op = "close" => last'.status = 0
       /\ \A p \in Procs :
            LET id == sessionData[p].sessionId
                path == outputFile(id)
            IN  /\ (/\ last'.op \in {"save", "stop"}
                    /\ last'.sessionId = id
                    /\ InRegistry(p) /\ OwnId(p)
                    /\ process[p].st = "closed")
                   => (/\ last'.status = 200
                       /\ ~(Registered(id))'
                       /\ ~(existsSync(path))')
                /\ (/\ last'.op = "close" /\ last'.proc = p
                    /\ OwnId(p)
                    /\ id \in saved)
                   => (/\ ~(Registered(id))'
                       /\ ~(existsSync(path))')]_vars

\* C14: sessions are isolated: a status, save or stop that found session a,
\* and a write, exit, close or error of the subprocess of a, leave the
\* registry entry, the subprocess and the file of every other started
\* session b as they were.
C14_SessionsIsolated ==
    [][\A a, b \in Procs :
          (/\ last'.op \in {"status", "save", "stop", "write", "exit", "close", "error"}
           /\ last'.proc = a
           /\ Started(b)
           /\ b # a)
          => (/\ InRegistry(b)' = InRegistry(b)
              /\ process'[b] = process[b]
              /\ sessionData'[b] = sessionData[b]
              /\ files'[outputFile(sessionData[b].sessionId)]
                    = files[outputFile(sessionData[b].sessionId)])]_vars

\* ------------------------------------------------------ step runner claims
\* A run has been answered.
Returned == pc = "idle" /\ res.code # 0

\* The initial navigation was made and did not reject.
NavigationSucceeded ==
    /\ \E n \in DOMAIN dispatched : dispatched[n].at = "nav"
    /\ \A n \in DOMAIN rejected : rejected[n].at # "nav"

\* Every step result there is says passed.
NoStepFailed == \A n \in DOMAIN stepResults : stepResults[n].status = "passed"

MethodOf(type) ==
    CASE type = "navigate" -> "goto"
      [] type = "click" -> "click"
      [] type = "fill" -> "fill"
      [] type = "wait" -> "waitForTimeout"
      [] OTHER -> "none"

\* The calls made for the navigation and the steps, without those of the end.
RunCalls == SelectSeq(dispatched, LAMBDA c : c.at # "end")

\* C18: the calls on the page are the initial navigation followed by the
\* calls of the steps of a prefix of the list, in the order of the list: no
\* step's call comes before that of an earlier step or twice, every step of
\* the prefix whose type has a method got its call, and a call for step k + 1
\* is made only when step k has a passed result.
C18_CallsInInputOrder ==
    /\ RunCalls # <<>> => RunCalls[1] = Call("nav", 0, "goto", 0)
    /\ \A n \in DOMAIN RunCalls :
          n > 1 =>
            /\ RunCalls[n].at = "step"
            /\ RunCalls[n].step \in DOMAIN body.steps
            /\ RunCalls[n].call = MethodOf(body.steps[RunCalls[n].step].type)
            /\ RunCalls[n - 1].step < RunCalls[n].step
            /\ \A j \in 1..(RunCalls[n].step - 1) :
                  j \in DOMAIN stepResults /\ stepResults[j].status = "passed"
    /\ \A k \in DOMAIN stepResults :
          MethodOf(body.steps[k].type) # "none" =>
              \E n \in DOMAIN RunCalls : RunCalls[n].at = "step" /\ RunCalls[n].step = k
    /\ pc = "step" => (i = Len(stepResults) /\ NoStepFailed)

\* A run made the calls of three steps of three types, in their order.
C18_Witness ==
    /\ Len(body.steps) = 3
    /\ Len(RunCalls) = 4
    /\ RunCalls[2].call = "fill"
    /\ RunCalls[3].call = "click"
    /\ RunCalls[4].call = "goto"

\* C19: when the initial navigation rejects, no call is made for any step,
\* there is no step result, and the run returns a top-level error with status
\* failed and no step results.
C19_NavigationFailureAborts ==
    \A n \in DOMAIN rejected :
        rejected[n].at = "nav" =>
            /\ \A c \in DOMAIN dispatched : dispatched[c].at = "nav"
            /\ stepResults = <<>>
            /\ Returned
            /\ res.code = 500
            /\ res.status = "failed"
            /\ res.steps = <<>>
            /\ res.error = <<rejected[n].message>>

\* The navigation of a run with steps rejected.
C19_Witness ==
    /\ Returned
    /\ Len(body.steps) = 2
    /\ rejected = <<Rejection("nav", 0, "m1")>>

\* C20: every returned run carries a status, a duration and the list of step
\* results, whichever way it ended (stated for requests that hold a list of
\* steps).
C20_CompleteResult ==
    (Returned /\ body.hasSteps) =>
        /\ res.status \in {"passed", "failed"}
        /\ res.duration # Undefined
        /\ \A k \in DOMAIN res.steps : res.steps[k].status \in {"passed", "failed"}

\* C21: every click or fill call is made with the timeout of its step when
\* the step gives one and with 5000 ms when it gives none; every wait call
\* waits the time of its step when the step gives one and 1000 ms when it
\* gives none.
C21_StepOwnTimeout ==
    \A n \in DOMAIN dispatched :
        LET c == dispatched[n] IN
        c.at = "step" =>
            LET step == body.steps[c.step] IN
            /\ c.call \in {"click", "fill"} =>
                  c.timeout = (IF step.timeout # 0 THEN step.timeout ELSE 5000)
            /\ c.call = "waitForTimeout" =>
                  c.timeout = (IF step.timeout # 0 THEN step.timeout ELSE 1000)

\* callLLM has been entered with a well-formed endpoint.
InLoop == llmPc # "idle" /\ env.AI_ENDPOINT.kind = "url"

\* C22: a gateway call makes at most maxRetries requests, returns with the
\* first attempt that succeeds and makes no attempt after it, and throws only
\* after exactly maxRetries failed attempts; maxRetries is 2 when no retry
\* count is configured and N when N >= 1 is configured.
C22_AtMostMaxRetries ==
    InLoop =>
        /\ requests <= maxRetries
        /\ llmResp.kind = "resolved" => requests = Len(failures) + 1
        /\ llmResp.kind = "thrown" => (Len(failures) = maxRetries /\ requests = maxRetries)
        /\ env.AI_RETRIES.kind = "undefined" => maxRetries = 2
        /\ (env.AI_RETRIES.kind = "int" /\ env.AI_RETRIES.n >= 1) => maxRetries = env.AI_RETRIES.n

Exhausted == InLoop /\ maxRetries >= 1 /\ Len(failures) = maxRetries

\* C24: when all the attempts have failed, the call throws the message of the
\* last failed attempt followed by the number of attempts made, which is
\* maxRetries.
C24_ExhaustedError ==
    Exhausted =>
        /\ requests = maxRetries
        /\ llmResp = Thrown(<<failures[maxRetries].message, " (after ",
                              ToString(requests), " attempt(s))">>)

C24_Witness ==
    /\ Exhausted
    /\ maxRetries = 3
    /\ failures[1].message = "ECONNRESET"
    /\ failures[2].message = TimedOut
    /\ failures[3].message = "ENOTFOUND"
    /\ llmResp.message[1] = "ENOTFOUND"
    /\ llmResp.message[3] = "3"

\* C25: with no endpoint or an endpoint that is no URL, the call throws a
\* configuration error, no request is sent and no backoff wait is made.
C25_ConfigErrorBeforeAttempts ==
    (llmPc # "idle" /\ env.AI_ENDPOINT.kind # "url") =>
        /\ llmResp \in {Thrown(<<"AI_ENDPOINT not configured">>),
                        Thrown(<<"AI_ENDPOINT is not a valid URL">>)}
        /\ requests = 0
        /\ waits = <<>>
        /\ failures = <<>>

C25_Witness ==
    /\ llmPc = "done"
    /\ env.AI_ENDPOINT.kind = "invalid"
    /\ llmResp = Thrown(<<"AI_ENDPOINT is not a valid URL">>)
    /\ aiRes.status = 500

\* C26: whichever way an attempt fails, by a transport error or by the
\* timeout, the step that fails it counts it as the one failed attempt of its
\* number, and either makes the backoff wait of that attempt and goes on to
\* the retry, or, on the final attempt, throws the error with the attempts.
C26_TimeoutLikeError ==
    [][Len(failures') = Len(failures) + 1 =>
          LET f == failures'[Len(failures')] IN
          /\ f.attempt = attempt
          /\ f.attempt = Len(failures')
          /\ IF attempt = maxRetries
             THEN /\ llmResp' = Thrown(<<f.message, " (after ", ToString(attempt), " attempt(s))">>)
                  /\ llmPc' = "done"
                  /\ waits' = waits
             ELSE /\ llmResp' = NoResult
                  /\ llmPc' = "backoff"
                  /\ waits' = Append(waits, attempt * 1000)]_vars

\* A timeout was retried after its wait, and the timeout of the final
\* attempt ended the call.
C26_Witness ==
    /\ maxRetries = 2
    /\ Len(failures) = 2
    /\ failures[1].kind = "timeout"
    /\ failures[2].kind = "timeout"
    /\ waits = <<1000>>
    /\ requests = 2
    /\ llmResp = Thrown(<<TimedOut, " (after ", "2", " attempt(s))">>)

\* The gateway call has returned a value to /api/ai/generate.
Delivered == llmResp.kind = "resolved"

\* C27: whatever value the gateway call returns, /api/ai/generate answers
\* with a string as code and with no error, and with the empty string for a
\* value that holds nothing to extract (null, a number, a boolean).
C27_NormalizationNeverFails ==
    Delivered =>
        /\ aiRes.status = 200
        /\ aiRes.success
        /\ typeof(aiRes.code) = "string"
        /\ llmResp.value \in {JsNull, Num(42), Bool(TRUE)} => aiRes.code = Text("")

\* One of the wrappers the normalization is to unwrap, around x: a fence
\* with a language tag, a JSON object with a code field, an object with a
\* content field, an OpenAI chat completion.
Layered(x) ==
    {Json(Obj([code |-> x])), Obj([content |-> x]),
     Obj([choices |-> Arr(<<Obj([message |-> Obj([content |-> x])])>>)])}
        \cup (IF typeof(x) = "string" THEN {Fence("ts", x)} ELSE {})

\* The code with at most d of these wrappers around it.
RECURSIVE Layers(_)
Layers(d) ==
    IF d = 0 THEN {TheCode}
    ELSE Layers(d - 1) \cup UNION {Layered(x) : x \in Layers(d - 1)}

\* The response bodies that deliver such a value: the strings among them,
\* and the JSON texts of the objects.
LayeredBodies ==
    {v \in Layers(MaxDepth) : typeof(v) = "string"}
        \cup {Json(v) : v \in {x \in Layers(MaxDepth - 1) : typeof(x) = "object"}}

\* C28: a response body made of the code inside a bounded number of wrappers
\* (fence, JSON object with a code field, object with a content field, chat
\* completion) is answered with exactly the code.
C28_UnwrapsToCode ==
    (Delivered /\ upstream \in LayeredBodies) => aiRes = AiResponse(200, TRUE, TheCode, <<>>)

\* C28, the case the claim spells out: a fence with a language tag around a
\* JSON object whose code field holds the code.
C28_FencedJsonCode ==
    (Delivered /\ upstream = Fence("ts", Json(Obj([code |-> TheCode]))))
        => aiRes = AiResponse(200, TRUE, TheCode, <<>>)

\* C29: the loop of extractCode runs at most 10 iterations; every iteration
\* but the last changes the value; when the loop stops before the cap, its
\* last iteration changes nothing and extractCode returns its result
\* unchanged when applied to it.
C29_LoopBounded ==
    extracted.ended # "none" =>
        LET seen == extracted.seen IN
        /\ Len(seen) \in 1..10
        /\ seen[1] = extracted.val
        /\ \A k \in 1..(Len(seen) - 1) :
              seen[k + 1] # seen[k] /\ seen[k + 1] = Iteration(seen[k]).code
        /\ extracted.ended = "cap" => Len(seen) = 10
        /\ extracted.ended = "break" =>
              /\ Iteration(seen[Len(seen)]).code = seen[Len(seen)]
              /\ extracted.code = StringOrEmpty(seen[Len(seen)])
              /\ extractCode(extracted.code).code = extracted.code
              /\ Len(extractCode(extracted.code).seen) = 1

\* The loop is cut by the cap: eleven objects, one in the content field of
\* the other, leave an object after ten iterations.
C29_Witness ==
    /\ extracted.ended = "cap"
    /\ Len(extracted.seen) = 10
    /\ extracted.val = Tower("content", 11)
    /\ aiRes.code = Text("")

\* The loop stops before the cap, after it has unwrapped four layers.
C29_WitnessFixedPoint ==
    /\ extracted.ended = "break"
    /\ Len(extracted.seen) = 5
    /\ aiRes.code = TheCode

\* C30: the value the gateway call returns for a response body, and the code
\* answered for it, are what they would be had the endpoint been detected the
\* other way.
C30_DetectionOnlyShapesRequest ==
    Delivered =>
        LET other == Resolved(ParseResponse(upstream, ~isOpenAIChat)) IN
        /\ llmResp = other
        /\ aiRes = GenerateResponse(other).aiRes

\* C33: a gateway call that has entered the loop ends inside it, with the
\* value of an attempt or with the error that carries the attempts; the
\* throw after the loop is never reached, whatever ENV.AI_RETRIES is.
C33_EndsInsideLoop ==
    (InLoop /\ llmPc = "done") =>
        /\ llmResp # Thrown(<<"LLM request failed after retries">>)
        /\ \/ llmResp.kind = "resolved"
           \/ /\ llmResp.kind = "thrown"
              /\ Len(failures) >= 1
              /\ llmResp.message = <<failures[Len(failures)].message, " (after ",
                                     ToString(attempt), " attempt(s))">>

\* The call ended with an attempt that failed, waited 1000 ms and met a
\* response of status 500 whose body is no JSON text.
C35_Witness ==
    /\ upstreamStatus = 500
    /\ upstream = TheCode
    /\ llmResp = Resolved(Obj([text |-> TheCode]))
    /\ llmPc = "done"
    /\ maxRetries = 3
    /\ requests = 2
    /\ Len(failures) = 1
    /\ waits = <<1000>>

\* C35: a response of the upstream ends the call with a value, whatever its
\* status code and its body: the step that receives it sends no request and
\* makes no wait, nothing follows it, and a body that is no JSON text is
\* returned as {text: body}; requests are repeated after failures only.
C35_AnyResponseSucceeds ==
    [][/\ <<upstream, upstreamStatus>>' # <<upstream, upstreamStatus>> =>
             /\ llmResp'.kind = "resolved"
             /\ llmPc' = "done"
             /\ requests' = requests
             /\ waits' = waits
             /\ failures' = failures
             /\ ~JSONparse(upstream').ok => llmResp'.value = Obj([text |-> upstream'])
       /\ (llmPc = "done" /\ llmResp.kind = "resolved") => UNCHANGED llmVars
       /\ (requests' > requests /\ requests >= 1) =>
             (Len(failures) = requests /\ llmPc = "backoff")]_vars

\* The last two calls made are the settle delay and the close, in this order.
SettledThenClosed ==
    /\ Len(dispatched) >= 2
    /\ dispatched[Len(dispatched) - 1] = Call("end", 0, "waitForTimeout", 2000)
    /\ dispatched[Len(dispatched)] = Call("end", 0, "close", 0)

C36_BrowserClosedOnReturn ==
    (Returned /\ browser # "none") => browser = "closed"

\* The types the switch has a case for.
KnownTypes == {"navigate", "click", "fill", "wait"}

\* C37: a step of a type the switch has no case for makes no browser call
\* and gets a passed step result, and the run goes on to the step after it:
\* no rejection and no failure is ever due to such a step.
C37_UnknownTypePasses ==
    \A k \in DOMAIN stepResults :
        body.steps[k].type \notin KnownTypes =>
            /\ stepResults[k] = [stepIndex |-> k - 1, status |-> "passed", error |-> Undefined]
            /\ \A n \in DOMAIN dispatched :
                  ~(dispatched[n].at = "step" /\ dispatched[n].step = k)
            /\ \A n \in DOMAIN rejected :
                  ~(rejected[n].at = "step" /\ rejected[n].step = k)
            /\ failureReason # Null => failureReason[2] # ToString(k)
            /\ (k < Len(body.steps) /\ Len(stepResults) = k) => (pc = "step" /\ i = k)

\* A run of a hover step between two clicks has passed, with three results
\* and the calls of the two clicks only.
C37_Witness ==
    /\ Returned
    /\ Len(body.steps) = 3
    /\ body.steps[1].type = "click"
    /\ body.steps[2].type = "hover"
    /\ body.steps[3].type = "click"
    /\ res.status = "passed"
    /\ Len(res.steps) = 3
    /\ Len(dispatched) = 5

\* C31: no 'error' event of a spawned subprocess, the one of a subprocess
\* that could not be started included, is emitted while no 'error' listener
\* is attached to it: the server is never ended by such an event.
C31_ErrorAlwaysHandled == ~unhandled

\* The steps of the subprocess and of the listeners attached to it.
SubprocessOps == {"write", "exit", "close", "error"}

\* C34, the part about late events: no step of a subprocess or of its
\* listeners adds an entry to the registry or changes one; the close
\* listener leaves the registry as it is.
C34_SubprocessEventsNeverAdd ==
    [][last'.op \in SubprocessOps =>
          /\ DOMAIN activeCodegenSessions' \subseteq DOMAIN activeCodegenSessions
          /\ \A id \in DOMAIN activeCodegenSessions' :
                activeCodegenSessions'[id] = activeCodegenSessions[id]
          /\ last'.op = "close" => activeCodegenSessions' = activeCodegenSessions]_vars

\* C34: the registry changes only by a start adding the id it made, which
\* was not registered, by a save or a stop removing the id given to it, and
\* by the error listener of a subprocess removing the id of its session; the
\* steps of a subprocess and of its listeners add nothing.
C34_RegistryMutators ==
    [][/\ activeCodegenSessions' # activeCodegenSessions =>
             \/ /\ last'.op = "start"
                /\ last'.sessionId \notin DOMAIN activeCodegenSessions
                /\ activeCodegenSessions' =
                       MapSet(activeCodegenSessions, last'.sessionId, last'.proc)
             \/ /\ last'.op \in {"save", "stop"}
                /\ activeCodegenSessions' = MapDelete(activeCodegenSessions, last'.sessionId)
             \/ /\ last'.op = "error"
                /\ activeCodegenSessions' =
                       MapDelete(activeCodegenSessions, sessionData[last'.proc].sessionId)
       /\ last'.op \in SubprocessOps =>
             DOMAIN activeCodegenSessions' \subseteq DOMAIN activeCodegenSessions]_vars

\* C38: a status call, on a registered id or on any other, leaves the
\* registry, the fields of every session, every subprocess and every
\* artifact file as they are.
C38_StatusReadOnly ==
    [][last'.op = "status" =>
          /\ activeCodegenSessions' = activeCodegenSessions
          /\ sessionData' = sessionData
          /\ process' = process
          /\ files' = files
          /\ nextProc' = nextProc]_vars

\* status has answered with the code of the artifact file, which is not the
\* code the session holds, and the session holds what it held.
C38_Witness ==
    /\ last.op = "status"
    /\ last.status = 200
    /\ last.fileExisted
    /\ last.generatedCode # EmptyCode
    /\ sessionData[last.proc].generatedCode = EmptyCode
    /\ files[outputFile(last.sessionId)] = last.generatedCode

\* --------------------------------------------- generated-test runner claims
\* Request r has spawned its test run and has not seen it close.
Running(r) == runs[r].st \in {"spawned", "testing"}

\* C39: concurrent run-codegen requests do not interfere: the test run of a
\* request loads only the spec file written for that request, with the code
\* of that request in it, and the cleanup of a request deletes only its own
\* spec file, never the spec file of another request that is still running.
C39_RunsDoNotInterfere ==
    [][\A r \in Requests :
          /\ (runs[r].st = "spawned" /\ runs'[r].st = "testing")
                => \A loaded \in runs'[r].executed :
                      loaded.path = runs[r].specFile /\ loaded.code = r
          /\ (Running(r) /\ runs'[r].st = "done")
                => \A path \in Ids :
                      (testsDir[path] # NoFile /\ testsDir'[path] = NoFile)
                         => /\ path = runs[r].specFile
                            /\ \A q \in Requests \ {r} :
                                  ~(Running(q) /\ runs[q].specFile = path)]_vars

\* ------------------------------------------------------- story link claims
\* The test cases linked to a story.
LinkedTo(storyId) == {row.test_case_id : row \in {x \in ado_story_tests : x.ado_story_id = storyId}}

\* The ids a call was given, as a set.
IdsOf(c) == Elements(linkCalls[c].testCaseIds)

\* C40: once linkTestCases(storyId, ids) resolves, the test cases linked to
\* storyId are exactly ids when no other call for that story was in flight
\* with it; when one was, and none is in flight any more, they are the ids
\* of this call or of one of those.
C40_LinkReplaces ==
    [][\A c \in Calls :
          (linkCalls[c].st = "insert" /\ linkCalls'[c].st = "done")
             => /\ linkCalls[c].rivals = {}
                      => LinkedTo(linkCalls[c].storyId)' = IdsOf(c)
                /\ (\A d \in Calls : ~(InFlight(d)' /\ linkCalls'[d].storyId = linkCalls[c].storyId))
                      => LinkedTo(linkCalls[c].storyId)' \in {IdsOf(c)} \cup linkCalls[c].rivals]_vars

====
